---- MODULE Spec2Model ----
(***************************************************************************)
(* The single-producer / single-consumer coalescing ring buffer of         *)
(* src/src/ring/spsc_coalescing_ring_buffer.rs.                            *)
(*                                                                         *)
(* One producer thread (offer, offer_value_only -> add -> size, clean_up,  *)
(* store) and one consumer thread (poll, poll_all -> fill) run             *)
(* interleaved.  Every access to an atomic that the other thread writes,   *)
(* and every swap on a value cell, is a step of its own; accesses to data  *)
(* that only the acting thread writes (the key holders, the thread's own   *)
(* counters) are folded into the neighbouring step.                        *)
(*                                                                         *)
(* Values are tracked as objects: offer number i supplies the original     *)
(* object [id |-> i, clone |-> FALSE]; value.clone() in offer makes        *)
(* [id |-> i, clone |-> TRUE].                                             *)
(***************************************************************************)
EXTENDS Integers, Sequences, FiniteSets, TLC

\* ---------------------------------------------------------------- bounds
\* the number of offer / offer_value_only calls the producer makes
MaxOffers == 3

\* the keys offered, the capacities requested of new(), the max_items polled
Keys == {1, 2}
Requested == {1, 2}
MaxItems == {0, 1, 2}

\* the runs of lib.rs, main.rs and tests/buffer_overflow_tests.rs: keyed
\* offers only, against a consumer that polls; the number of offers made
MaxKeyedOffers == 4
KeyedRequested == {2, 3}
KeyedMaxItems == {1, 100}

\* the width of the unsigned word (usize), scaled down so that a poll can
\* ask for the largest max_items the word holds
WordBits == 4
Word == 2 ^ WordBits
WordMax == Word - 1

\* the max_items of the polls that reach for the word's limit, and the
\* number of offers made in those runs
WordMaxItems == {1, WordMax - 1, WordMax}
MaxWordOffers == 2

\* the runs that fill a new buffer with no consumer: the number of offers,
\* the keys (one per offer, so that every offer can bring a new key) and the
\* capacities requested
MaxFillOffers == 5
FillKeys == 1..MaxFillOffers
FillRequested == {1, 2, 3}

\* the runs checked for progress: the number of offers made
MaxLiveOffers == 2

\* the runs of a producer that retries rejected offers against a consumer
\* that keeps polling: the number of distinct offers, the max_items polled
MaxRetryOffers == 2
RetryMaxItems == {1}

\* the run of the simple module's buffer: the senders, and the number of
\* values each offers before its final one
Senders == {0, 1}
SimpleOffers == 2

OfferIds ==
    1..(MaxOffers + MaxKeyedOffers + MaxWordOffers + MaxFillOffers + MaxLiveOffers
          + MaxRetryOffers)

\* ------------------------------------------------------------ data types
\* enum KeyHolder<T> { Empty, NonEmpty(T), NonCollapsible }
Empty == [tag |-> "Empty"]
NonEmpty(k) == [tag |-> "NonEmpty", key |-> k]
NonCollapsible == [tag |-> "NonCollapsible"]

\* Option<V>
None == <<>>
Some(v) == <<v>>
is_none(o) == o = None
unwrap(o) == o[1]

\* the value moved into a slot is the one of the first call
Orig_First(i) == [id |-> 1, clone |-> FALSE]

Orig(i) == [id |-> i, clone |-> FALSE]
Clone(i) == [id |-> i, clone |-> TRUE]
AllObjs == [id : OfferIds, clone : BOOLEAN]

\* ------------------------------------------------------- bit arithmetic
\* mask's operands are slot indices and positions: small integers
RECURSIVE BitAnd(_, _)
BitAnd(a, b) ==
    IF a = 0 \/ b = 0 THEN 0
    ELSE (IF a % 2 = 1 /\ b % 2 = 1 THEN 1 ELSE 0) + 2 * BitAnd(a \div 2, b \div 2)

\* The capacity passed to new() is any usize, and next_power_of_two shifts
\* it by fixed amounts, so it is computed at the full width of usize: a
\* usize is the set of the indices of its one bits.
UsizeBits == 64
AllBits == 0..(UsizeBits - 1)

\* an integer below 2^31 as a usize, and back
Bits(n) == {b \in 0..30 : (n \div (2 ^ b)) % 2 = 1}
RECURSIVE Value(_)
Value(v) ==
    IF v = {} THEN 0
    ELSE LET b == CHOOSE x \in v : TRUE IN (2 ^ b) + Value(v \ {b})

Lowest(S) == CHOOSE b \in S : \A x \in S : b <= x

\* v - 1 and v + 1, wrapping
Decr(v) == IF v = {} THEN AllBits ELSE (v \ {Lowest(v)}) \cup (0..(Lowest(v) - 1))
Incr(v) ==
    IF v = AllBits THEN {}
    ELSE LET b == Lowest(AllBits \ v) IN (v \ (0..(b - 1))) \cup {b}

\* v | w and v >> n
BitOr(v, w) == v \cup w
ShiftRight(v, n) == {b - n : b \in {x \in v : x >= n}}

\* next_power_of_two: v = v | (v >> 1); .. v = v | (v >> 16)
Smear(v0) ==
    LET v1 == BitOr(v0, ShiftRight(v0, 1))
        v2 == BitOr(v1, ShiftRight(v1, 2))
        v3 == BitOr(v2, ShiftRight(v2, 4))
        v4 == BitOr(v3, ShiftRight(v3, 8))
    IN  BitOr(v4, ShiftRight(v4, 16))

\* next_power_of_two: v = capacity; v = v - 1; ..; v = v + 1; return v
next_power_of_two(capacity) == Incr(Smear(Decr(capacity)))

\* the v - 1 or the v + 1 of next_power_of_two leaves the word
next_power_of_two_overflows(capacity) ==
    capacity = {} \/ Smear(Decr(capacity)) = AllBits

Min(a, b) == IF a <= b THEN a ELSE b

\* usize arithmetic: a result outside the word panics when the build checks
\* overflow (debug profile) and wraps when it does not (release profile)
Overflows(x) == x < 0 \/ x > WordMax
Wrap(x) == x % Word

\* no position: the value of a position field that has not been set
NoPos == 0 - 1

\* ----------------------------------------------------------------- state
VARIABLES
    new,                            \* the call of new(): argument and results
    capacity, mask,                 \* fixed at construction
    overflow_checks,                \* the build profile: overflow panics / wraps
    next_write, first_write, last_read, last_cleaned, rejection_count,
    keys, values,                   \* slot arrays, indexed 0..capacity-1
    producer,                       \* the producer thread: position and locals
    consumer,                       \* the consumer thread: position and locals
    log,                            \* history: one record per offer call
    returned,                       \* history: values returned by polls, in order
    dropped,                        \* history: how often each object was dropped
    simple                          \* the simple module's buffer and its threads

vars == <<new, capacity, mask, overflow_checks, next_write, first_write, last_read, last_cleaned,
          rejection_count, keys, values, producer, consumer, log, returned,
          dropped, simple>>

Mask(value) == BitAnd(value, mask)

\* new: let size = next_power_of_two(capacity); .. capacity: size, mask: size - 1
New(c) ==
    IF overflow_checks /\ next_power_of_two_overflows(c)
    THEN \* attempt to subtract / add with overflow
         [pc |-> "panic", capacity |-> c, size |-> {}, mask |-> {}]
    ELSE [pc |-> "done", capacity |-> c, size |-> next_power_of_two(c),
          mask |-> Decr(next_power_of_two(c))]

\* simple: the values of the documented run: sender s offers 0, 1, ..,
\* SimpleOffers - 1 and then -1; a value is known by its sender and number
POISON_PILL == 0 - 1
SimpleValue(s, n) ==
    [sender |-> s, n |-> n, val |-> IF n <= SimpleOffers THEN n - 1 ELSE POISON_PILL]
SimpleValues == {SimpleValue(s, n) : s \in Senders, n \in 1..(SimpleOffers + 1)}

\* new_simple_buffer: Buffer { value: AtomicPtr::new(ptr::null_mut()) }, with
\* the threads of the documented run before their first step, and the
\* history: the values polls returned, the values dropped, and whether a
\* send took effect since the last poll
new_simple_buffer ==
    [value |-> None,
     sender |-> [s \in Senders |-> [pc |-> "idle", n |-> 0, val_ptr |-> None, old_ptr |-> None]],
     receiver |-> [pc |-> "poll", val |-> None],
     polled |-> <<>>,
     freed |-> <<>>,
     took_effect |-> FALSE]

IdleProducer ==
    [pc |-> "idle", key |-> Empty, id |-> 0, update_pos |-> NoPos, old_ptr |-> None,
     last_read_before |-> 0, current_next_write |-> 0, last_read |-> 0, x |-> 0,
     start |-> <<>>]

IdleConsumer ==
    [pc |-> "idle", claim_up_to |-> 0, read_index |-> 0, bucket |-> <<>>,
     max_items |-> 0, op |-> "none", last_read_before |-> 0, current_next_write |-> 0]

\* CoalescingRingBuffer::new
Init ==
    \* the counters of these runs stay far below the word's limit, where the
    \* two build profiles behave alike
    /\ overflow_checks = TRUE
    /\ \E c \in Requested : new = New(Bits(c))
    /\ capacity = Value(new.size)
    /\ mask = Value(new.mask)
    /\ next_write = 1
    /\ last_cleaned = 0
    /\ rejection_count = 0
    /\ first_write = 1
    /\ last_read = 0
    /\ keys = [i \in 0..(capacity - 1) |-> Empty]
    /\ values = [i \in 0..(capacity - 1) |-> None]
    /\ producer = IdleProducer
    /\ consumer = IdleConsumer
    /\ log = <<>>
    /\ returned = <<>>
    /\ dropped = [o \in AllObjs |-> 0]
    /\ simple = new_simple_buffer

\* ------------------------------------------------------------- history
Drop(d, o) == IF is_none(o) THEN d ELSE [d EXCEPT ![unwrap(o)] = @ + 1]

\* the positions of the in-flight range whose key holder equals h
InFlight(h) == {p \in first_write..(next_write - 1) : keys[Mask(p)] = h}

\* log[i]: the key holder offered, how the call ended, the position the
\* value was appended at or coalesced into (pos), the position a clone was
\* swapped into (clonePos) and whether that position was still unclaimed at
\* the swap (swapInFlight), whether a later offer of the same key completed
\* while every position written by this call was still unclaimed, and the
\* size() that add's fullness check saw
NewLog(h) ==
    [key |-> h, res |-> "pending", pos |-> NoPos, clonePos |-> NoPos, swapInFlight |-> FALSE,
     superseded |-> FALSE,
     size |-> -1]

\* what the producer saw when the call began
CallStart(h) ==
    [pos |-> IF h.tag # "NonEmpty" \/ InFlight(h) = {} THEN NoPos
             ELSE CHOOSE p \in InFlight(h) : TRUE,
     next_write |-> next_write, rejection_count |-> rejection_count,
     last_read |-> last_read, last_cleaned |-> last_cleaned]

Written(l, i) == {l[i].pos, l[i].clonePos} \ {NoPos}

\* offer number id has returned with result r
Finish(l, id, r) ==
    [i \in 1..Len(l) |->
        IF i = id THEN [l[i] EXCEPT !.res = r]
        ELSE IF /\ i < id
                /\ l[id].key.tag = "NonEmpty"
                /\ l[i].key = l[id].key
                /\ l[i].res \in {"appended", "coalesced"}
                /\ \A p \in Written(l, i) : p >= first_write
             THEN [l[i] EXCEPT !.superseded = TRUE]
             ELSE l[i]]

\* ------------------------------------------------------------ producer
ConsumerUnchanged == UNCHANGED <<first_write, last_read, consumer, returned>>
\* (the ring buffer's operations do not touch the simple module's buffer)
Fixed == UNCHANGED <<new, capacity, mask, overflow_checks, simple>>

\* the scan finds no key
MatchPos_Never(h, from, to) == NoPos

\* the scan starts one position late
MatchPos_SkipFirst(h, from, to) ==
    LET m == {p \in (from + 1)..(to - 1) : keys[Mask(p)] = h}
    IN  IF m = {} THEN NoPos ELSE CHOOSE p \in m : \A q \in m : p <= q

\* the scan compares the variants of the key holders, not the keys
MatchPos_TagOnly(h, from, to) ==
    LET m == {p \in from..(to - 1) : keys[Mask(p)].tag = h.tag}
    IN  IF m = {} THEN NoPos ELSE CHOOSE p \in m : \A q \in m : p <= q

\* the scan takes an entry without a key for a match
MatchPos_NonCollapsibleMatches(h, from, to) ==
    LET m == {p \in from..(to - 1) : keys[Mask(p)] = h \/ keys[Mask(p)] = NonCollapsible}
    IN  IF m = {} THEN NoPos ELSE CHOOSE p \in m : \A q \in m : p <= q

\* the scan starts at the first position ever written, not at first_write
MatchPos_FromStart(h, from, to) ==
    LET m == {p \in 1..(to - 1) : keys[Mask(p)] = h}
    IN  IF m = {} THEN NoPos ELSE CHOOSE p \in m : \A q \in m : p <= q

\* the scan reports the position after the matching one
MatchPos_NextSlot(h, from, to) ==
    LET m == {p \in from..(to - 1) : keys[Mask(p)] = h}
    IN  IF m = {} THEN NoPos ELSE (CHOOSE p \in m : \A q \in m : p <= q) + 1

\* the first position of from..(to - 1) whose key holder equals h, else NoPos
MatchPos(h, from, to) ==
    LET m == {p \in from..(to - 1) : keys[Mask(p)] = h}
    IN  IF m = {} THEN NoPos ELSE CHOOSE p \in m : \A q \in m : p <= q

\* offer: let next_write = self.next_write.load(); let key_type = NonEmpty(key);
\*        for update_pos in self.first_write.load()..next_write { if key_type == keys[index]
OfferCall(k, limit) ==
    /\ producer.pc = "idle"
    /\ Len(log) < limit
    /\ LET m == MatchPos(NonEmpty(k), first_write, next_write)
       IN  producer' = [IdleProducer EXCEPT
                           !.pc = IF m = NoPos THEN "size_before" ELSE "swap",
                           !.key = NonEmpty(k), !.id = Len(log) + 1,
                           !.update_pos = m, !.start = CallStart(NonEmpty(k))]
    /\ log' = Append(log, NewLog(NonEmpty(k)))
    /\ UNCHANGED <<next_write, last_cleaned, rejection_count, keys, values, dropped>>
    /\ ConsumerUnchanged /\ Fixed

OfferBegin(k) == OfferCall(k, MaxOffers)

\* offer: let old_ptr = self.values[index].swap(Some(value.clone()))
OfferSwap ==
    /\ producer.pc = "swap"
    /\ LET index == Mask(producer.update_pos)
       IN  /\ values' = [values EXCEPT ![index] = Some(Clone(producer.id))]
           /\ producer' = [producer EXCEPT !.pc = "recheck", !.old_ptr = values[index]]
    /\ log' = [log EXCEPT ![producer.id].clonePos = producer.update_pos,
                          ![producer.id].swapInFlight = producer.update_pos >= first_write]
    /\ UNCHANGED <<next_write, last_cleaned, rejection_count, keys, dropped>>
    /\ ConsumerUnchanged /\ Fixed

\* the re-read of first_write compares with > instead of >=
StillInFlight_Strict(update_pos, fw) == update_pos > fw

\* the coalescing store is not followed by a re-read of first_write
StillInFlight_NoRecheck(update_pos, fw) == TRUE

\* offer: if update_pos >= self.first_write.load()
StillInFlight(update_pos, fw) == update_pos >= fw

\* offer: if update_pos >= .. { return true } else { break } .. return self.add(..)
OfferRecheck ==
    /\ producer.pc = "recheck"
    /\ IF StillInFlight(producer.update_pos, first_write)
       THEN /\ producer' = IdleProducer
            /\ log' = Finish([log EXCEPT ![producer.id].pos = producer.update_pos],
                             producer.id, "coalesced")
            \* old_ptr and the original value are dropped when offer returns
            /\ dropped' = Drop(Drop(dropped, producer.old_ptr), Some(Orig(producer.id)))
       ELSE \* old_ptr is dropped at the break
            /\ producer' = [producer EXCEPT !.pc = "size_before", !.old_ptr = None]
            /\ dropped' = Drop(dropped, producer.old_ptr)
            /\ UNCHANGED log
    /\ UNCHANGED <<next_write, last_cleaned, rejection_count, keys, values>>
    /\ ConsumerUnchanged /\ Fixed

\* offer_value_only: return self.add(KeyHolder::NonCollapsible, value)
OfferValueOnlyCall(limit) ==
    /\ producer.pc = "idle"
    /\ Len(log) < limit
    /\ producer' = [IdleProducer EXCEPT !.pc = "size_before", !.key = NonCollapsible,
                        !.id = Len(log) + 1, !.start = CallStart(NonCollapsible)]
    /\ log' = Append(log, NewLog(NonCollapsible))
    /\ UNCHANGED <<next_write, last_cleaned, rejection_count, keys, values, dropped>>
    /\ ConsumerUnchanged /\ Fixed

OfferValueOnlyBegin == OfferValueOnlyCall(MaxOffers)

\* size: let last_read_before = self.last_read.load();
\*       let current_next_write = self.next_write.load()
SizeReadBefore ==
    /\ producer.pc = "size_before"
    /\ producer' = [producer EXCEPT !.pc = "size_after", !.last_read_before = last_read,
                       !.current_next_write = next_write]
    /\ UNCHANGED <<next_write, last_cleaned, rejection_count, keys, values, log, dropped>>
    /\ ConsumerUnchanged /\ Fixed

\* size never takes its two reads of last_read for equal
consistent_Never(last_read_before, last_read_after) == FALSE

\* size: if last_read_before == last_read_after { return .. } (else loop)
consistent(last_read_before, last_read_after) == last_read_before = last_read_after

\* size subtracts the wrong way round
size_Swapped(current_next_write, last_read_before) ==
    (last_read_before - current_next_write) - 1

\* size forgets the - 1
size_NoMinusOne(current_next_write, last_read_before) ==
    current_next_write - last_read_before

\* size: return (current_next_write - last_read_before) - 1
size(current_next_write, last_read_before) == (current_next_write - last_read_before) - 1

\* is_full answers one entry late
is_full_OneLate(sz) == sz = capacity + 1

\* is_full never answers true
is_full_Never(sz) == FALSE

\* is_full answers one entry early
is_full_OneEarly(sz) == sz >= capacity - 1

\* is_full: self.size() == self.capacity
is_full(sz) == sz = capacity

\* is_empty: self.first_write.load() == self.next_write.load()
is_empty == first_write = next_write

\* the rejection is not counted
fetch_add_Lost(count, n) == count

\* add: self.rejection_count.fetch_add(1, Ordering::SeqCst) (atomics wrap)
fetch_add(count, n) == Wrap(count + n)

\* size: let last_read_after = ..; if last_read_before == last_read_after { return .. }
\* add:  if self.is_full() { self.rejection_count.fetch_add(1); return false }
SizeReadAfter ==
    /\ producer.pc = "size_after"
    /\ IF ~consistent(producer.last_read_before, last_read)
       THEN /\ producer' = [producer EXCEPT !.pc = "size_before"]
            /\ UNCHANGED <<rejection_count, log, dropped>>
       ELSE LET raw == size(producer.current_next_write, producer.last_read_before)
                sz == Wrap(raw)
                seen == [log EXCEPT ![producer.id].size = sz]
            IN  IF overflow_checks /\ Overflows(raw)
                THEN \* attempt to subtract with overflow
                     /\ producer' = [producer EXCEPT !.pc = "panic"]
                     /\ log' = Finish(log, producer.id, "panicked")
                     /\ dropped' = Drop(dropped, Some(Orig(producer.id)))
                     /\ UNCHANGED rejection_count
                ELSE IF is_full(sz)
                THEN /\ rejection_count' = fetch_add(rejection_count, 1)
                     /\ producer' = IdleProducer
                     /\ log' = Finish(seen, producer.id, "rejected")
                     /\ dropped' = Drop(dropped, Some(Orig(producer.id)))
                ELSE /\ producer' = [producer EXCEPT !.pc = "clean"]
                     /\ log' = seen
                     /\ UNCHANGED <<rejection_count, dropped>>
    /\ UNCHANGED <<next_write, last_cleaned, keys, values>>
    /\ ConsumerUnchanged /\ Fixed

\* add does not clean up before it stores
CleanUpBegin_Skipped ==
    /\ producer.pc = "clean"
    /\ producer' = [producer EXCEPT !.pc = "store"]
    /\ UNCHANGED <<next_write, last_cleaned, rejection_count, keys, values, log, dropped>>
    /\ ConsumerUnchanged /\ Fixed

\* clean_up: let last_read = ..; let last_cln = ..; if last_read == last_cln { return }
\*           (an empty range last_cln..last_read leaves only the store of last_cleaned)
CleanUpBegin ==
    /\ producer.pc = "clean"
    /\ producer' = [producer EXCEPT
                       !.pc = IF last_cleaned < last_read THEN "erase" ELSE "store",
                       !.last_read = last_read, !.x = last_cleaned]
    /\ last_cleaned' = IF last_cleaned > last_read THEN last_read ELSE last_cleaned
    /\ UNCHANGED <<next_write, rejection_count, keys, values, log, dropped>>
    /\ ConsumerUnchanged /\ Fixed

\* clean_up: for x in last_cln..last_read { keys[index].set(Empty); values[index].swap(None) }
\*           self.last_cleaned.store(last_read)
CleanUpErase ==
    /\ producer.pc = "erase"
    /\ LET index == Mask(producer.x + 1)
           last == producer.x + 1 >= producer.last_read
       IN  /\ keys' = [keys EXCEPT ![index] = Empty]
           /\ values' = [values EXCEPT ![index] = None]
           /\ dropped' = Drop(dropped, values[index])
           /\ producer' = [producer EXCEPT !.x = @ + 1,
                              !.pc = IF last THEN "store" ELSE "erase"]
           /\ last_cleaned' = IF last THEN producer.last_read ELSE last_cleaned
    /\ UNCHANGED <<next_write, rejection_count, log>>
    /\ ConsumerUnchanged /\ Fixed

\* store: keys[index].set(key); let old_ptr = values[index].swap(Some(value))
Store ==
    /\ producer.pc = "store"
    /\ LET index == Mask(next_write)
       IN  /\ keys' = [keys EXCEPT ![index] = producer.key]
           /\ values' = [values EXCEPT ![index] = Some(Orig(producer.id))]
           /\ dropped' = Drop(dropped, values[index])
    /\ producer' = [producer EXCEPT !.pc = "publish"]
    /\ log' = [log EXCEPT ![producer.id].pos = next_write]
    /\ UNCHANGED <<next_write, last_cleaned, rejection_count>>
    /\ ConsumerUnchanged /\ Fixed

\* store: self.next_write.store(next_write + 1); add: return true
StorePublish ==
    /\ producer.pc = "publish"
    /\ IF overflow_checks /\ Overflows(next_write + 1)
       THEN \* attempt to add with overflow
            /\ producer' = [producer EXCEPT !.pc = "panic"]
            /\ log' = Finish(log, producer.id, "panicked")
            /\ UNCHANGED next_write
       ELSE /\ next_write' = Wrap(next_write + 1)
            /\ producer' = IdleProducer
            /\ log' = Finish(log, producer.id, "appended")
    /\ UNCHANGED <<last_cleaned, rejection_count, keys, values, dropped>>
    /\ ConsumerUnchanged /\ Fixed

\* ------------------------------------------------------------ consumer
\* the consumer publishes last_cleaned too
ProducerUnchanged_CleansUp ==
    /\ UNCHANGED <<next_write, rejection_count, keys, producer, log, dropped>>
    /\ last_cleaned' = last_read

ProducerUnchanged ==
    UNCHANGED <<next_write, last_cleaned, rejection_count, keys, producer, log, dropped>>

\* poll limits its claim to the position after next_write
claim_NextWriteIncluded(fw, max_items, nw) == Min(Wrap(fw + max_items), nw + 1)

\* poll does not limit its claim to next_write
claim_PastNextWrite(fw, max_items, nw) == Wrap(fw + max_items)

\* poll claims one position more than max_items
claim_OneMore(fw, max_items, nw) == Min(Wrap(fw + max_items + 1), nw)

\* poll ignores max_items
claim_IgnoresMax(fw, max_items, nw) == nw

\* poll: cmp::min(self.first_write.load() + max_items, self.next_write.load())
claim(fw, max_items, nw) == Min(Wrap(fw + max_items), nw)

PollBegin(max_items) ==
    /\ consumer.pc = "idle"
    /\ consumer' = IF overflow_checks /\ Overflows(first_write + max_items)
                   THEN \* attempt to add with overflow
                        [IdleConsumer EXCEPT !.pc = "panic", !.op = "poll",
                            !.max_items = max_items]
                   ELSE [IdleConsumer EXCEPT !.pc = "fill", !.op = "poll",
                            !.max_items = max_items,
                            !.claim_up_to = claim(first_write, max_items, next_write)]
    /\ UNCHANGED <<first_write, last_read, values, returned>>
    /\ ProducerUnchanged /\ Fixed

\* poll_all: let total_to_poll = self.next_write.load(); return self.fill(total_to_poll)
PollAll == [IdleConsumer EXCEPT !.pc = "fill", !.op = "poll_all", !.claim_up_to = next_write]

PollAllBegin ==
    /\ consumer.pc = "idle"
    /\ consumer' = PollAll
    /\ UNCHANGED <<first_write, last_read, values, returned>>
    /\ ProducerUnchanged /\ Fixed

\* fill: self.first_write.store(claim_up_to); let last_read = self.last_read.load()
FillClaim ==
    /\ consumer.pc = "fill"
    /\ first_write' = consumer.claim_up_to
    /\ consumer' = IF overflow_checks /\ Overflows(last_read + 1)
                   THEN \* attempt to add with overflow
                        [consumer EXCEPT !.pc = "panic"]
                   ELSE [consumer EXCEPT !.pc = "drain", !.read_index = Wrap(last_read + 1)]
    /\ UNCHANGED <<last_read, values, returned>>
    /\ ProducerUnchanged /\ Fixed

\* fill reads the value and leaves it in the slot
Take_Peek(vals, index) == vals

\* fill: let val = values[index].swap(None)
Take(vals, index) == [vals EXCEPT ![index] = None]

\* fill: for read_index in last_read + 1..claim_up_to {
\*         if val.is_none() { panic!() } else { bucket.push(val.unwrap()) } }
FillTake ==
    /\ consumer.pc = "drain"
    /\ consumer.read_index < consumer.claim_up_to
    /\ LET index == Mask(consumer.read_index)
           val == values[index]
       IN  /\ values' = Take(values, index)
           /\ consumer' = IF is_none(val)
                          THEN [consumer EXCEPT !.pc = "panic"]
                          ELSE [consumer EXCEPT
                                   !.bucket = Append(@, [obj |-> unwrap(val),
                                                         pos |-> consumer.read_index]),
                                   !.read_index = @ + 1]
    /\ UNCHANGED <<first_write, last_read, returned>>
    /\ ProducerUnchanged /\ Fixed

\* fill steps last_read back once it has moved
released_Backwards(claim_up_to) ==
    IF last_read > 0 THEN last_read - 1 ELSE Wrap(claim_up_to - 1)

\* fill publishes claim_up_to itself
released_OffByOne(claim_up_to) == claim_up_to

\* fill never moves last_read
released_Stuck(claim_up_to) == last_read

\* fill publishes one position less than it drained
released_OneShort(claim_up_to) == Wrap(claim_up_to - 2)

\* fill: self.last_read.store(claim_up_to - 1)
released(claim_up_to) == Wrap(claim_up_to - 1)

\* fill: self.last_read.store(claim_up_to - 1); return bucket
FillPublish ==
    /\ consumer.pc = "drain"
    /\ consumer.read_index >= consumer.claim_up_to
    /\ IF overflow_checks /\ Overflows(consumer.claim_up_to - 1)
       THEN \* attempt to subtract with overflow
            /\ consumer' = [consumer EXCEPT !.pc = "panic"]
            /\ UNCHANGED <<last_read, returned>>
       ELSE /\ last_read' = released(consumer.claim_up_to)
            /\ returned' = returned \o consumer.bucket
            /\ consumer' = IdleConsumer
    /\ UNCHANGED <<first_write, values>>
    /\ ProducerUnchanged /\ Fixed

\* Receiver::size -> size: let last_read_before = self.last_read.load();
\*                         let current_next_write = self.next_write.load()
ReceiverSizeBefore ==
    /\ consumer.pc \in {"idle", "size_before"}
    /\ consumer' = [IdleConsumer EXCEPT !.pc = "size_after", !.op = "size",
                        !.last_read_before = last_read,
                        !.current_next_write = next_write]
    /\ UNCHANGED <<first_write, last_read, values, returned>>
    /\ ProducerUnchanged /\ Fixed

\* size: let last_read_after = ..; if last_read_before == last_read_after {
\*         return (current_next_write - last_read_before) - 1 }
ReceiverSizeAfter ==
    /\ consumer.pc = "size_after"
    /\ consumer' =
          IF ~consistent(consumer.last_read_before, last_read)
          THEN [consumer EXCEPT !.pc = "size_before"]
          ELSE IF /\ overflow_checks
                  /\ Overflows(size(consumer.current_next_write, consumer.last_read_before))
          THEN \* attempt to subtract with overflow
               [consumer EXCEPT !.pc = "panic"]
          ELSE IdleConsumer
    /\ UNCHANGED <<first_write, last_read, values, returned>>
    /\ ProducerUnchanged /\ Fixed

\* ------------------------------------------------------- specification
Next ==
    \/ \E k \in Keys : OfferBegin(k)
    \/ OfferSwap
    \/ OfferRecheck
    \/ OfferValueOnlyBegin
    \/ SizeReadBefore
    \/ SizeReadAfter
    \/ CleanUpBegin
    \/ CleanUpErase
    \/ Store
    \/ StorePublish
    \/ \E m \in MaxItems : PollBegin(m)
    \/ PollAllBegin
    \/ FillClaim
    \/ FillTake
    \/ FillPublish
    \/ ReceiverSizeBefore
    \/ ReceiverSizeAfter

Spec == Init /\ [][Next]_vars

\* the keyed runs: new(capacity), then offer(key, value) against poll(max_items)
InitKeyed ==
    \* the counters of these runs stay far below the word's limit, where the
    \* two build profiles behave alike
    /\ overflow_checks = TRUE
    /\ \E c \in KeyedRequested : new = New(Bits(c))
    /\ capacity = Value(new.size)
    /\ mask = Value(new.mask)
    /\ next_write = 1
    /\ last_cleaned = 0
    /\ rejection_count = 0
    /\ first_write = 1
    /\ last_read = 0
    /\ keys = [i \in 0..(capacity - 1) |-> Empty]
    /\ values = [i \in 0..(capacity - 1) |-> None]
    /\ producer = IdleProducer
    /\ consumer = IdleConsumer
    /\ log = <<>>
    /\ returned = <<>>
    /\ dropped = [o \in AllObjs |-> 0]
    /\ simple = new_simple_buffer

NextKeyed ==
    \/ \E k \in Keys : OfferCall(k, MaxKeyedOffers)
    \/ OfferSwap
    \/ OfferRecheck
    \/ SizeReadBefore
    \/ SizeReadAfter
    \/ CleanUpBegin
    \/ CleanUpErase
    \/ Store
    \/ StorePublish
    \/ \E m \in KeyedMaxItems : PollBegin(m)
    \/ FillClaim
    \/ FillTake
    \/ FillPublish

SpecKeyed == InitKeyed /\ [][NextKeyed]_vars

\* the runs in which poll is asked for up to the largest max_items the word
\* holds, under either build profile
InitWord ==
    /\ overflow_checks \in BOOLEAN
    /\ \E c \in Requested : new = New(Bits(c))
    /\ capacity = Value(new.size)
    /\ mask = Value(new.mask)
    /\ next_write = 1
    /\ last_cleaned = 0
    /\ rejection_count = 0
    /\ first_write = 1
    /\ last_read = 0
    /\ keys = [i \in 0..(capacity - 1) |-> Empty]
    /\ values = [i \in 0..(capacity - 1) |-> None]
    /\ producer = IdleProducer
    /\ consumer = IdleConsumer
    /\ log = <<>>
    /\ returned = <<>>
    /\ dropped = [o \in AllObjs |-> 0]
    /\ simple = new_simple_buffer

NextWord ==
    \/ \E k \in Keys : OfferCall(k, MaxWordOffers)
    \/ OfferSwap
    \/ OfferRecheck
    \/ SizeReadBefore
    \/ SizeReadAfter
    \/ CleanUpBegin
    \/ CleanUpErase
    \/ Store
    \/ StorePublish
    \/ \E m \in WordMaxItems : PollBegin(m)
    \/ PollAllBegin
    \/ FillClaim
    \/ FillTake
    \/ FillPublish

SpecWord == InitWord /\ [][NextWord]_vars

\* the runs that fill a new buffer: offers and offer_value_only calls with
\* no poll (clean_up finds nothing to erase)
InitFill ==
    /\ overflow_checks = TRUE
    /\ \E c \in FillRequested : new = New(Bits(c))
    /\ capacity = Value(new.size)
    /\ mask = Value(new.mask)
    /\ next_write = 1
    /\ last_cleaned = 0
    /\ rejection_count = 0
    /\ first_write = 1
    /\ last_read = 0
    /\ keys = [i \in 0..(capacity - 1) |-> Empty]
    /\ values = [i \in 0..(capacity - 1) |-> None]
    /\ producer = IdleProducer
    /\ consumer = IdleConsumer
    /\ log = <<>>
    /\ returned = <<>>
    /\ dropped = [o \in AllObjs |-> 0]
    /\ simple = new_simple_buffer

NextFill ==
    \/ \E k \in FillKeys : OfferCall(k, MaxFillOffers)
    \/ OfferSwap
    \/ OfferRecheck
    \/ OfferValueOnlyCall(MaxFillOffers)
    \/ SizeReadBefore
    \/ SizeReadAfter
    \/ CleanUpBegin
    \/ Store
    \/ StorePublish

SpecFill == InitFill /\ [][NextFill]_vars

\* the capacities requested of new(): 25, and 2^e - 1, 2^e and 2^e + 1 for
\* every bit e of the word
CapRequested ==
    {Bits(25)} \cup {{e} : e \in AllBits} \cup {{0, e} : e \in AllBits \ {0}}
        \cup {0..e : e \in AllBits}

\* new() is called with a requested capacity, under either build profile
InitCap ==
    /\ overflow_checks \in BOOLEAN
    /\ \E c \in CapRequested : new = [pc |-> "call", capacity |-> c, size |-> {}, mask |-> {}]
    /\ capacity = 0
    /\ mask = 0
    /\ next_write = 1
    /\ last_cleaned = 0
    /\ rejection_count = 0
    /\ first_write = 1
    /\ last_read = 0
    /\ keys = <<>>
    /\ values = <<>>
    /\ producer = IdleProducer
    /\ consumer = IdleConsumer
    /\ log = <<>>
    /\ returned = <<>>
    /\ dropped = [o \in AllObjs |-> 0]
    /\ simple = new_simple_buffer

\* new computes the effective capacity and the mask
NewSize ==
    /\ new.pc = "call"
    /\ new' = New(new.capacity)
    /\ UNCHANGED <<capacity, mask, overflow_checks, next_write, first_write, last_read,
                   last_cleaned, rejection_count, keys, values, producer, consumer,
                   log, returned, dropped, simple>>

NextCap == NewSize

SpecCap == InitCap /\ [][NextCap]_vars

\* the steps a thread takes inside a call it has begun
ProducerStep ==
    \/ OfferSwap
    \/ OfferRecheck
    \/ SizeReadBefore
    \/ SizeReadAfter
    \/ CleanUpBegin
    \/ CleanUpErase
    \/ Store
    \/ StorePublish

\* (size called by the consumer never goes round its loop: the consumer is
\* the only writer of last_read, so its two reads agree)
ConsumerStep ==
    \/ FillClaim
    \/ FillTake
    \/ FillPublish
    \/ ReceiverSizeAfter

\* the runs checked for progress: every operation, on both threads; which
\* thread keeps taking steps is the hypothesis of each progress property
NextLive ==
    \/ \E k \in Keys : OfferCall(k, MaxLiveOffers)
    \/ OfferValueOnlyCall(MaxLiveOffers)
    \/ ProducerStep
    \/ \E m \in MaxItems : PollBegin(m)
    \/ PollAllBegin
    \/ ReceiverSizeBefore
    \/ ConsumerStep

SpecLive == Init /\ [][NextLive]_vars /\ WF_vars(NextLive)

\* the last call was rejected / accepted
Rejected == Len(log) > 0 /\ log[Len(log)].res = "rejected"
Accepted == Len(log) > 0 /\ log[Len(log)].res \in {"appended", "coalesced"}

\* the producer makes its next offer once the last one was accepted
OfferNext(k) == ~Rejected /\ OfferCall(k, MaxRetryOffers)

\* the producer offers again what was rejected: the same key, a value that
\* stands for the rejected one (offer, as OfferCall, for the same log entry)
OfferRetry ==
    /\ producer.pc = "idle"
    /\ Rejected
    /\ LET h == log[Len(log)].key
           m == IF h.tag = "NonEmpty" THEN MatchPos(h, first_write, next_write) ELSE NoPos
       IN  /\ producer' = [IdleProducer EXCEPT
                              !.pc = IF m = NoPos THEN "size_before" ELSE "swap",
                              !.key = h, !.id = Len(log),
                              !.update_pos = m, !.start = CallStart(h)]
           /\ log' = [log EXCEPT ![Len(log)] = NewLog(h)]
    /\ dropped' = [dropped EXCEPT ![Orig(Len(log))] = 0]
    /\ UNCHANGED <<next_write, last_cleaned, rejection_count, keys, values>>
    /\ ConsumerUnchanged /\ Fixed

ProducerRetries ==
    \/ OfferRetry
    \/ ProducerStep

ConsumerPolls ==
    \/ \E m \in RetryMaxItems : PollBegin(m)
    \/ PollAllBegin
    \/ FillClaim
    \/ FillTake
    \/ FillPublish

\* a producer that offers again whatever was rejected, and a consumer that
\* keeps polling: both threads keep running
NextRetry ==
    \/ \E k \in Keys : OfferNext(k)
    \/ ProducerRetries
    \/ ConsumerPolls

SpecRetry ==
    Init /\ [][NextRetry]_vars /\ WF_vars(ProducerRetries) /\ WF_vars(ConsumerPolls)

\* a producer that may stop at any point, and a consumer that keeps calling
\* poll(max_items) with max_items >= 1 and poll_all
NextDeliver ==
    \/ \E k \in Keys : OfferCall(k, MaxLiveOffers)
    \/ OfferValueOnlyCall(MaxLiveOffers)
    \/ ProducerStep
    \/ ConsumerPolls

SpecDeliver == Init /\ [][NextDeliver]_vars /\ WF_vars(ConsumerPolls)

\* operations run one at a time: a thread begins and continues a call only
\* while the other thread is in none
NextSeq ==
    \/ /\ consumer.pc = "idle"
       /\ \/ \E k \in Keys : OfferBegin(k)
          \/ OfferValueOnlyBegin
          \/ ProducerStep
    \/ /\ producer.pc = "idle"
       /\ \/ \E m \in MaxItems : PollBegin(m)
          \/ PollAllBegin
          \/ ReceiverSizeBefore
          \/ ConsumerStep

SpecSeq == Init /\ [][NextSeq]_vars

\* ------------------------------------------------------ simple module
RingUnchanged ==
    UNCHANGED <<new, capacity, mask, overflow_checks, next_write, first_write, last_read,
                last_cleaned, rejection_count, keys, values, producer, consumer, log,
                returned, dropped>>

\* Sender::offer -> Buffer::send: let val_ptr = Box::into_raw(Box::new(val))
SenderOffer(s) ==
    /\ simple.sender[s].pc = "idle"
    /\ simple' = [simple EXCEPT
                     !.sender[s].pc = "swap",
                     !.sender[s].n = @ + 1,
                     !.sender[s].val_ptr = Some(SimpleValue(s, simple.sender[s].n + 1))]
    /\ RingUnchanged

\* send: let old_ptr = self.value.swap(val_ptr, Ordering::SeqCst)
BufferSend(s) ==
    /\ simple.sender[s].pc = "swap"
    /\ simple' = [simple EXCEPT
                     !.value = simple.sender[s].val_ptr,
                     !.sender[s].pc = "drop",
                     !.sender[s].old_ptr = simple.value,
                     !.sender[s].val_ptr = None,
                     !.took_effect = TRUE]
    /\ RingUnchanged

\* send: drop_if_not_null(old_ptr); the sender's loop ends after offer(-1)
DropIfNotNull(s) ==
    /\ simple.sender[s].pc = "drop"
    /\ simple' = [simple EXCEPT
                     !.freed = IF is_none(simple.sender[s].old_ptr) THEN @
                               ELSE Append(@, unwrap(simple.sender[s].old_ptr)),
                     !.sender[s].old_ptr = None,
                     !.sender[s].pc = IF simple.sender[s].n > SimpleOffers THEN "done"
                                      ELSE "idle"]
    /\ RingUnchanged

\* poll reads the cell and leaves the value in it
BufferPoll_Peek ==
    /\ simple.receiver.pc = "poll"
    /\ simple' = [simple EXCEPT
                     !.receiver = [pc |-> "got", val |-> simple.value],
                     !.took_effect = FALSE]
    /\ RingUnchanged

\* Receiver::poll -> Buffer::poll: let val = self.value.swap(ptr::null_mut(), SeqCst)
BufferPoll ==
    /\ simple.receiver.pc = "poll"
    /\ simple' = [simple EXCEPT
                     !.value = None,
                     !.receiver = [pc |-> "got", val |-> simple.value],
                     !.took_effect = FALSE]
    /\ RingUnchanged

\* the receiver goes on polling after the value -1
Break_Never(value) == FALSE

\* consumer: if *value == -1 { break }
Break(value) == value.val = POISON_PILL

\* poll: if val.is_null() { None } else { Some(*Box::from_raw(val)) };
\* consumer: loop { if let Some(ref value) = rx.poll() { if *value == -1 { break } } }
ReceiverPoll ==
    /\ simple.receiver.pc = "got"
    /\ simple' =
          IF is_none(simple.receiver.val)
          THEN [simple EXCEPT !.receiver.pc = "poll"]
          ELSE [simple EXCEPT
                   !.polled = Append(@, unwrap(simple.receiver.val)),
                   !.receiver = [pc |-> IF Break(unwrap(simple.receiver.val)) THEN "done"
                                        ELSE "poll",
                                 val |-> None]]
    /\ RingUnchanged

SenderStep(s) == SenderOffer(s) \/ BufferSend(s) \/ DropIfNotNull(s)
ReceiverStep == BufferPoll \/ ReceiverPoll

NextSimple ==
    \/ \E s \in Senders : SenderStep(s)
    \/ ReceiverStep

\* the documented run: two producer threads and the consumer thread, which
\* main joins; every thread keeps running until it is done
InitSimple == Init /\ new.capacity = Bits(1)

SpecSimple ==
    /\ InitSimple
    /\ [][NextSimple]_vars
    /\ \A s \in Senders : WF_vars(SenderStep(s))
    /\ WF_vars(ReceiverStep)

\* ------------------------------------------------------------- claims
\* every value the consumer has taken out of a slot so far, in order
Taken == returned \o consumer.bucket
Quiet == producer.pc = "idle" /\ consumer.pc = "idle"
Drained == Quiet /\ last_read = next_write - 1
Keyed(i) == log[i].key.tag = "NonEmpty"
Done(i) == log[i].res # "pending"
Count(seq, o) == Cardinality({x \in 1..Len(seq) : seq[x].obj = o})
CountId(seq, i) == Cardinality({x \in 1..Len(seq) : seq[x].obj.id = i})
Results(r) == {i \in 1..Len(log) : log[i].res = r}

\* C1: a keyed offer returns false only if size() equalled capacity at its
\* fullness check and, when it returns, no position of
\* [first_write, next_write) holds an equal key.
C1_RejectedOnlyWhenFullAndKeyNotInFlight ==
    \A i \in 1..Len(log) :
        (i = Len(log) /\ producer.pc = "idle" /\ Keyed(i) /\ log[i].res = "rejected")
            => /\ log[i].size = capacity
               /\ InFlight(log[i].key) = {}

C1_Witness ==
    /\ producer.pc = "idle" /\ Len(log) > 0
    /\ Keyed(Len(log)) /\ log[Len(log)].res = "rejected"
    /\ log[Len(log)].clonePos # NoPos
    /\ consumer.pc = "drain"

\* the step on which an offer call returns
OfferReturns == producer.pc # "idle" /\ producer'.pc = "idle"

\* a keyed offer returns; an equal key was in flight when it began and its
\* position is still unclaimed
CoalesceCase ==
    /\ OfferReturns
    /\ producer.start.pos # NoPos
    /\ first_write' <= producer.start.pos

\* C2 as stated: with an equal key in flight and no poll claiming it during
\* the call, offer returns true, replaces that entry's value and leaves
\* next_write, size() and rejection_count unchanged.
C2_AsStated ==
    [][CoalesceCase =>
        /\ log'[producer.id].res = "coalesced"
        /\ values'[Mask(producer.start.pos)] = Some(Clone(producer.id))
        /\ next_write' = producer.start.next_write
        /\ rejection_count' = producer.start.rejection_count
        /\ size(next_write', last_read')
             = size(producer.start.next_write, producer.start.last_read)]_vars

\* C2 amended: as C2, but size() is unchanged by the offer itself: it differs
\* from its value at the start of the call only by the entries at lower
\* positions that a concurrent poll drained meanwhile.
C2_CoalesceConsumesNoSlot ==
    [][CoalesceCase =>
        /\ log'[producer.id].res = "coalesced"
        /\ log'[producer.id].pos = producer.start.pos
        /\ values'[Mask(producer.start.pos)] = Some(Clone(producer.id))
        /\ next_write' = producer.start.next_write
        /\ rejection_count' = producer.start.rejection_count
        /\ size(next_write', last_read')
             = size(producer.start.next_write, producer.start.last_read)
                 - (last_read' - producer.start.last_read)
        /\ (last_read' = producer.start.last_read
              => size(next_write', last_read')
                   = size(producer.start.next_write, producer.start.last_read))]_vars

\* a coalescing offer on a full buffer is about to return
C2_Witness ==
    /\ producer.pc = "recheck"
    /\ producer.start.pos # NoPos
    /\ first_write <= producer.start.pos
    /\ size(next_write, last_read) = capacity
    /\ values[Mask(producer.start.pos)] = Some(Clone(producer.id))

\* the offers after i, of i's key, that coalesced into i's position
Replacers(i) ==
    {j \in (i + 1)..Len(log) :
        log[j].key = log[i].key /\ log[j].res = "coalesced" /\ log[j].pos = log[i].pos}

ValueOnly(i) == log[i].key = NonCollapsible

\* C4: a value queued by offer_value_only is never replaced or overwritten:
\* it stays in its slot until the consumer takes it, it is never dropped,
\* once its position is drained it has been returned, and the values of two
\* accepted offer_value_only calls are taken in the order of the calls.
C4_ValueOnlyNeverReplaced ==
    /\ \A i \in 1..Len(log) :
          (ValueOnly(i) /\ log[i].res = "appended") =>
              /\ dropped[Orig(i)] = 0
              /\ \/ values[Mask(log[i].pos)] = Some(Orig(i))
                 \/ \E x \in 1..Len(Taken) :
                       Taken[x] = [obj |-> Orig(i), pos |-> log[i].pos]
              /\ log[i].pos <= last_read => Count(returned, Orig(i)) = 1
    /\ \A x, y \in 1..Len(Taken) :
          (x < y /\ ValueOnly(Taken[x].obj.id) /\ ValueOnly(Taken[y].obj.id))
              => Taken[x].obj.id < Taken[y].obj.id

\* two offer_value_only values were returned while a keyed offer ran between
C4_Witness ==
    \E x, y \in 1..Len(returned) :
        /\ x < y
        /\ ValueOnly(returned[x].obj.id) /\ ValueOnly(returned[y].obj.id)
        /\ \E i \in 1..Len(log) : Keyed(i) /\ Done(i)

\* the last offer of key k, and the last value of key k returned
OffersOf(k) == {i \in 1..Len(log) : log[i].key = NonEmpty(k)}
ReturnsOf(k) == {x \in 1..Len(returned) : log[returned[x].obj.id].key = NonEmpty(k)}
Last(S) == CHOOSE m \in S : \A n \in S : n <= m

\* C5: when no offer was rejected, the producer has stopped and the buffer
\* is drained, the last value returned for each key is the value of the
\* producer's last offer of that key.
C5_LatestValuePerKeyDelivered ==
    (Drained /\ rejection_count = 0) =>
        \A k \in Keys :
            OffersOf(k) # {} =>
                /\ ReturnsOf(k) # {}
                /\ returned[Last(ReturnsOf(k))].obj.id = Last(OffersOf(k))

\* drained after an offer that lost the race against the poll claiming its key
C5_Witness ==
    /\ Drained /\ rejection_count = 0
    /\ \E k \in Keys : Cardinality(OffersOf(k)) >= 2
    /\ \E i \in 1..Len(log) : log[i].res = "appended" /\ log[i].clonePos # NoPos

\* C6: a value supplied by one offer or offer_value_only call is returned
\* by poll at most once.
C6_ReturnedAtMostOnce ==
    \A i \in 1..Len(log) : CountId(Taken, i) <= 1

\* the positions at which the producer moved object o into a slot
SlotsOf(o) ==
    IF o.id > Len(log) THEN {}
    ELSE IF o.clone THEN {log[o.id].clonePos} \ {NoPos}
    ELSE IF log[o.id].res \in {"pending", "appended"} THEN {log[o.id].pos} \ {NoPos}
    ELSE {}

\* C7: every object moved into a slot meets at most one end (returned by
\* one poll, or dropped once by the producer), never both and never twice,
\* and exactly one once its position has been cleaned; store never finds a
\* value to drop in the slot it fills.
C7_ExactlyOneEnd ==
    /\ \A o \in AllObjs :
          Count(Taken, o) + dropped[o] + (IF producer.old_ptr = Some(o) THEN 1 ELSE 0) <= 1
    /\ \A o \in AllObjs :
          \A p \in SlotsOf(o) :
              p <= last_cleaned => Count(Taken, o) + dropped[o] = 1
    /\ producer.pc = "store" => is_none(values[Mask(next_write)])

\* a clone left in a drained slot has been dropped by clean_up
C7_Witness ==
    \E i \in 1..Len(log) :
        /\ log[i].res = "appended" /\ log[i].clonePos # NoPos
        /\ log[i].clonePos <= last_cleaned
        /\ dropped[Clone(i)] = 1
        /\ Count(returned, Orig(i)) = 1

\* C8: when the buffer is drained and no call is in progress, the number of
\* values offered equals the number returned by polls plus the number of
\* coalescing offers plus the number of rejected offers.
C8_Conservation ==
    Drained =>
        Len(log) = Len(returned) + Cardinality(Results("coalesced"))
                     + Cardinality(Results("rejected"))

C8_Witness ==
    /\ Drained
    /\ Len(log) = MaxOffers
    /\ Results("coalesced") # {} /\ Results("rejected") # {}
    /\ returned # <<>>

KeysOffered == {log[i].key : i \in 1..Len(log)}

C10_PollReturnsAtMostMaxInOrder ==
    /\ consumer.op = "poll" => Len(consumer.bucket) <= consumer.max_items
    /\ \A x \in 1..Len(Taken) : Taken[x].pos = x
    /\ \A x \in 1..Len(consumer.bucket) : consumer.bucket[x].pos = last_read + x
    /\ \A p \in first_write..(next_write - 1) : ~is_none(values[Mask(p)])
    /\ consumer.pc \in {"idle", "fill"} => first_write = last_read + 1

\* a poll(1) is about to return one value while a second entry stays queued
C10_Witness ==
    /\ consumer.pc = "drain" /\ consumer.op = "poll" /\ consumer.max_items = 1
    /\ consumer.read_index >= consumer.claim_up_to
    /\ Len(consumer.bucket) = 1
    /\ next_write > first_write
    /\ returned # <<>>

\* the step on which a poll_all call returns
PollAllReturns ==
    consumer.pc = "drain" /\ consumer.op = "poll_all" /\ consumer'.pc = "idle"

\* C11: poll_all returns, in ascending position order, the value of every
\* position that was below the next_write it read and not yet drained: the
\* positions last_read + 1 .. total_to_poll - 1, each with a value an offer
\* wrote at that position; when next_write has not moved since (no offer
\* ran concurrently), size() is 0 and is_empty() holds when it returns.
C11_PollAllReturnsEveryPublished ==
    [][PollAllReturns =>
        /\ returned' = returned \o consumer.bucket
        /\ Len(consumer.bucket) = (consumer.claim_up_to - 1) - last_read
        /\ \A x \in 1..Len(consumer.bucket) :
              /\ consumer.bucket[x].pos = last_read + x
              /\ consumer.bucket[x].pos \in Written(log, consumer.bucket[x].obj.id)
        /\ next_write' = consumer.claim_up_to =>
              /\ size(next_write', last_read') = 0
              /\ first_write' = next_write']_vars

\* a poll_all that ran with the producer idle is about to return two values
C11_Witness ==
    /\ consumer.pc = "drain" /\ consumer.op = "poll_all"
    /\ consumer.read_index >= consumer.claim_up_to
    /\ Len(consumer.bucket) = 2
    /\ producer.pc = "idle" /\ next_write = consumer.claim_up_to

\* the offers before j that appended an entry of j's key at the position j
\* coalesced into
Originals(j) ==
    {i \in 1..(j - 1) :
        log[i].key = log[j].key /\ log[i].res = "appended" /\ log[i].pos = log[j].pos}

\* C13: a coalescing offer does not move the entry: its value sits at the
\* position at which an earlier offer appended the key's entry, it is
\* returned from that position, and so ahead of the value of every entry
\* appended behind that entry.
C13_CoalesceKeepsPosition ==
    \A j \in Results("coalesced") :
        /\ Originals(j) # {}
        /\ \A x \in 1..Len(Taken) :
              Taken[x].obj = Clone(j) =>
                  /\ Taken[x].pos = log[j].pos
                  /\ \A y \in 1..Len(Taken) :
                        (/\ log[Taken[y].obj.id].res = "appended"
                         /\ log[Taken[y].obj.id].pos > log[j].pos
                         /\ Taken[y].pos = log[Taken[y].obj.id].pos) => x < y

\* offer(1, a); offer(2, b); offer(1, c); poll_all() has returned [c, b]
C13_Witness ==
    /\ Len(log) = 3
    /\ log[1].key = log[3].key /\ log[2].key # log[1].key /\ Keyed(2)
    /\ log[1].res = "appended" /\ log[2].res = "appended" /\ log[3].res = "coalesced"
    /\ Len(returned) = 2
    /\ returned[1].obj = Clone(3) /\ returned[2].obj = Orig(2)
    /\ Quiet

\* the offer of the same key that precedes offer j, if it was accepted
Previous(j) ==
    {i \in 1..(j - 1) :
        /\ log[i].key = log[j].key
        /\ \A m \in (i + 1)..(j - 1) : log[m].key # log[j].key
        /\ log[i].res \in {"appended", "coalesced"}}

\* the value offer i left in its entry
Entry(i) ==
    [obj |-> IF log[i].res = "coalesced" THEN Clone(i) ELSE Orig(i), pos |-> log[i].pos]

\* a keyed offer returns; the entry of the key's previous offer had been
\* claimed and drained by a poll that completed before the offer began
AfterReadCase ==
    /\ OfferReturns
    /\ producer.key.tag = "NonEmpty"
    /\ Previous(producer.id) # {}
    /\ \A i \in Previous(producer.id) :
          \A p \in Written(log, i) : p <= producer.start.last_read

\* C14 as stated: if the entry for key k was claimed by a poll that
\* completed before offer(k, v2) begins, the offer does not coalesce: it
\* appends v2 at next_write, consuming one slot; v1 has been returned, as
\* offered, by that poll, and v2 is queued for a later poll.
C14_AsStated ==
    [][AfterReadCase =>
        /\ log'[producer.id].res = "appended"
        /\ log'[producer.id].clonePos = NoPos
        /\ log'[producer.id].pos = producer.start.next_write
        /\ next_write' = producer.start.next_write + 1
        /\ \A i \in Previous(producer.id) : Count(returned', Entry(i).obj) = 1
        /\ CountId(Taken', producer.id) = 0
        /\ values'[Mask(producer.start.next_write)] = Some(Orig(producer.id))]_vars

\* C14 amended: in that case the offer does not coalesce: it writes to no
\* in-flight entry and is handled as a new key: rejected if size() equals
\* capacity at the fullness check (other entries fill the buffer), and
\* otherwise appended at next_write, consuming one slot; v1 has been
\* returned, as offered, from its own position by the poll that claimed it;
\* an appended v2 is queued and not yet returned, and once its position is
\* drained a poll has returned from it v2 (or a later value of k that
\* replaced it).
C14_ReadBetweenOffersDefeatsCoalescing ==
    /\ [][AfterReadCase =>
            /\ log'[producer.id].clonePos = NoPos
            /\ \A i \in Previous(producer.id) : Count(returned', Entry(i).obj) = 1
            /\ \A i \in Previous(producer.id) :
                  \E x \in 1..Len(returned') : returned'[x] = Entry(i)
            /\ CountId(Taken', producer.id) = 0
            /\ IF log'[producer.id].size = capacity
               THEN /\ log'[producer.id].res = "rejected"
                    /\ next_write' = producer.start.next_write
               ELSE /\ log'[producer.id].res = "appended"
                    /\ log'[producer.id].pos = producer.start.next_write
                    /\ next_write' = producer.start.next_write + 1
                    /\ values'[Mask(producer.start.next_write)]
                         = Some(Orig(producer.id))]_vars
    /\ [](\A j \in 1..Len(log) :
            (log[j].res = "appended" /\ log[j].pos <= last_read) =>
                \E x \in 1..Len(returned) :
                    /\ returned[x].pos = log[j].pos
                    /\ returned[x].obj.id >= j
                    /\ log[returned[x].obj.id].key = log[j].key)

\* offer(k, v1) was appended and drained by a completed poll; offer(k, v2),
\* begun after it, is about to publish its own entry
C14_Witness ==
    /\ producer.pc = "publish"
    /\ producer.key.tag = "NonEmpty"
    /\ Previous(producer.id) # {}
    /\ \A i \in Previous(producer.id) :
          /\ \A p \in Written(log, i) : p <= producer.start.last_read
          /\ \E x \in 1..Len(returned) : returned[x] = Entry(i)

\* C15: rejection_count equals the number of offer and offer_value_only
\* calls that have returned false; so it rises by one with each rejected
\* call and by nothing else.
C15_RejectionCountCountsRejections ==
    rejection_count = Cardinality(Results("rejected"))

\* two calls were rejected, a keyed and a value-only one, around an append
\* and a poll
C15_Witness ==
    /\ rejection_count = 2
    /\ \E i, j \in Results("rejected") : Keyed(i) /\ ValueOnly(j)
    /\ Results("appended") # {}
    /\ returned # <<>>

\* the step on which an offer or offer_value_only call returns false
RejectReturns == OfferReturns /\ log'[producer.id].res = "rejected"

\* what a rejected call leaves of the counters: rejection_count is one
\* higher, next_write and last_cleaned are as when the call began, and so
\* is size() but for what the consumer drained meanwhile
RejectKeepsCounters ==
    /\ rejection_count' = producer.start.rejection_count + 1
    /\ next_write' = producer.start.next_write
    /\ last_cleaned' = producer.start.last_cleaned
    /\ size(next_write', last_read') = size(producer.start.next_write, last_read')
    /\ keys' = keys

\* C16: a call that returns false changes nothing but rejection_count:
\* next_write, last_cleaned, size() and the keys are as before, and the call
\* has written to no slot: no slot holds its value, and none was taken by
\* the consumer.
C16_RejectedCallChangesNothing ==
    [][RejectReturns =>
        /\ RejectKeepsCounters
        /\ log'[producer.id].clonePos = NoPos
        /\ \A index \in 0..(capacity - 1) :
              is_none(values'[index]) \/ unwrap(values'[index]).id # producer.id
        /\ CountId(Taken', producer.id) = 0]_vars

\* the part of C16 about the counters and the keys
C16_RejectedCallKeepsCounters == [][RejectReturns => RejectKeepsCounters]_vars

\* the steps on which size() returns: in add on the producer's thread, in
\* Receiver::size on the consumer's
SizeReturnsToProducer ==
    producer.pc = "size_after" /\ producer'.pc \notin {"size_after", "size_before"}
SizeReturnsToConsumer ==
    consumer.pc = "size_after" /\ consumer'.pc \notin {"size_after", "size_before"}

\* size's loads of last_read and next_write
SizeLoads(t) ==
    /\ t.pc # "size_after" /\ t'.pc = "size_after"
    /\ t'.last_read_before = last_read /\ t'.current_next_write = next_write

\* the value size returns from the loads of thread t: neither subtraction
\* underflows, the value lies in 0 .. capacity, and last_read is still what
\* it was when next_write was loaded
SizeResult(t) ==
    /\ t.current_next_write - t.last_read_before >= 0
    /\ (t.current_next_write - t.last_read_before) - 1 >= 0
    /\ (t.current_next_write - t.last_read_before) - 1 <= capacity
    /\ size(t.current_next_write, t.last_read_before)
         = (t.current_next_write - t.last_read_before) - 1
    /\ t.last_read_before = last_read

\* C17: every value size() returns, to the producer or to the consumer
\* while the other thread runs, lies in 0 .. capacity and is
\* next_write - last_read - 1 for the values the two counters had when
\* next_write was loaded; no subtraction underflows.
C17_SizeIsConsistent ==
    /\ [][(producer'.pc = "size_after" /\ producer.pc # "size_after") => SizeLoads(producer)]_vars
    /\ [][(consumer'.pc = "size_after" /\ consumer.pc # "size_after") => SizeLoads(consumer)]_vars
    /\ [][SizeReturnsToProducer =>
            (SizeResult(producer) /\ producer.current_next_write = next_write)]_vars
    /\ [][SizeReturnsToConsumer => (SizeResult(consumer) /\ consumer'.pc = "idle")]_vars

\* Receiver::size is about to return a value that next_write has already
\* left behind, while an offer is in progress
C17_Witness ==
    /\ consumer.pc = "size_after"
    /\ consumer.current_next_write < next_write
    /\ size(consumer.current_next_write, consumer.last_read_before) >= 1
    /\ producer.pc # "idle"

\* the entries appended and not yet returned by a poll
Queued == Cardinality(Results("appended")) - Len(returned)

\* the step on which a poll or poll_all call returns
PollReturns ==
    consumer.pc = "drain" /\ consumer.op \in {"poll", "poll_all"} /\ consumer'.pc = "idle"

\* C18: whenever no offer or poll is in progress, size() is the number of
\* entries appended and not yet returned by a poll, is_full() holds iff
\* that number is capacity and is_empty() iff it is zero; an appending
\* offer raises size() by one, a coalescing or rejected one leaves it
\* unchanged, and a poll lowers it by the number of values it returns.
C18_SizeCountsQueuedEntries ==
    /\ [](Quiet =>
            /\ size(next_write, last_read) = Queued
            /\ is_full(size(next_write, last_read)) <=> Queued = capacity
            /\ is_empty <=> Queued = 0)
    /\ [][OfferReturns =>
            size(next_write', last_read') - size(next_write, last_read)
              = IF log'[producer.id].res = "appended" THEN 1 ELSE 0]_vars
    /\ [][PollReturns =>
            size(next_write, last_read) - size(next_write', last_read')
              = Len(consumer.bucket)]_vars

\* offer_value_only(a); offer(1, b); a rejected offer; poll(1): the buffer
\* of capacity 2 was full and now holds one entry
C18_Witness ==
    /\ Quiet /\ capacity = 2
    /\ Len(log) = 3 /\ ValueOnly(1) /\ Keyed(2)
    /\ log[1].res = "appended" /\ log[2].res = "appended" /\ log[3].res = "rejected"
    /\ Len(returned) = 1
    /\ size(next_write, last_read) = 1
    /\ ~is_empty /\ ~is_full(size(next_write, last_read))

\* offer i brings a new entry: it has no key, or a key that no earlier
\* accepted offer had
NewEntry(i) ==
    \/ ValueOnly(i)
    \/ \A j \in 1..(i - 1) : log[j].key = log[i].key => log[j].res = "rejected"

AppendedBefore(i) == {j \in 1..(i - 1) : log[j].res = "appended"}

\* C19: on a new buffer of effective capacity N with no polls, an offer
\* that brings a new entry (a key not in the buffer, or no key) returns
\* true while fewer than N entries were appended and false from then on:
\* N offers with pairwise distinct keys succeed, the next new key and
\* offer_value_only are rejected.
C19_FillsToCapacityThenRejects ==
    \A i \in 1..Len(log) :
        (Done(i) /\ NewEntry(i)) =>
            log[i].res = IF Cardinality(AppendedBefore(i)) < capacity
                         THEN "appended" ELSE "rejected"

\* capacity 4 (requested 3): four offers with distinct keys were accepted,
\* the fifth, with a further new key, was rejected
C19_Witness ==
    /\ capacity = 4 /\ Len(log) = capacity + 1
    /\ \A i, j \in 1..Len(log) : i # j => (Keyed(i) /\ log[i].key # log[j].key)
    /\ \A i \in 1..capacity : log[i].res = "appended"
    /\ log[capacity + 1].res = "rejected"

\* v is a power of two; v is at least w
IsPowerOfTwo(v) == Cardinality(v) = 1
Highest(S) == CHOOSE b \in S : \A x \in S : b >= x
RECURSIVE AtLeast(_, _)
AtLeast(v, w) ==
    IF w = {} THEN TRUE
    ELSE IF v = {} THEN FALSE
    ELSE IF Highest(v) # Highest(w) THEN Highest(v) > Highest(w)
    ELSE AtLeast(v \ {Highest(v)}, w \ {Highest(w)})

\* C20: for every requested capacity c >= 1 that fits the word, new returns
\* a buffer whose capacity is the smallest power of two that is at least c
\* (no smaller power of two, its half, is at least c) and whose mask is
\* capacity - 1 (all the bits below capacity's).
C20_CapacityIsNextPowerOfTwo ==
    new.pc # "call" =>
        /\ new.pc = "done"
        /\ IsPowerOfTwo(new.size)
        /\ AtLeast(new.size, new.capacity)
        /\ new.size # {0} => ~AtLeast(ShiftRight(new.size, 1), new.capacity)
        /\ new.mask = 0..(Highest(new.size) - 1)

\* the same for the requested capacities up to 2^32
C20_UpTo32Bits ==
    (new.pc # "call" /\ AtLeast({32}, new.capacity)) =>
        /\ new.pc = "done"
        /\ IsPowerOfTwo(new.size)
        /\ AtLeast(new.size, new.capacity)
        /\ new.size # {0} => ~AtLeast(ShiftRight(new.size, 1), new.capacity)
        /\ new.mask = 0..(Highest(new.size) - 1)

\* C21: the effective capacity of a new buffer is never less than 2 (for
\* the requested capacities up to 2^32, which next_power_of_two rounds
\* correctly); a requested capacity of 1 yields capacity 2.
C21_CapacityAtLeastTwo ==
    (new.pc # "call" /\ AtLeast({32}, new.capacity)) =>
        /\ new.pc = "done"
        /\ AtLeast(new.size, Bits(2))
        /\ new.capacity = Bits(1) => new.size = Bits(2)

\* C22: every call finishes after finitely many steps of the calling
\* thread, whatever the other thread does: if the producer keeps taking the
\* steps of the call it is in, the call returns, however the consumer is
\* scheduled (never, or for ever), and likewise for the consumer.
C22_EveryCallFinishes ==
    /\ WF_vars(ProducerStep) => ((producer.pc # "idle") ~> (producer.pc = "idle"))
    /\ WF_vars(ConsumerStep) => ((consumer.pc # "idle") ~> (consumer.pc = "idle"))

\* size's loop in add has gone round once, a poll having moved last_read
\* between its two reads, and the consumer is in a poll again
C22_Witness ==
    /\ producer.pc = "size_before"
    /\ producer.current_next_write > 0
    /\ producer.last_read_before # last_read
    /\ consumer.pc = "drain"

\* the step on which poll_all or poll(max_items) is called on a buffer with
\* no published undrained entry, or poll(0) is called on any buffer
EmptyPollBegins ==
    /\ consumer.pc = "idle" /\ consumer'.pc = "fill"
    /\ \/ next_write = first_write
       \/ consumer'.op = "poll" /\ consumer'.max_items = 0

\* a step of the consumer inside a poll that claimed nothing
EmptyPollStep ==
    /\ consumer.pc \in {"fill", "drain"}
    /\ consumer.claim_up_to = last_read + 1
    /\ consumer' # consumer

\* C23: poll(max_items) and poll_all() on a buffer with no published
\* undrained entry, and poll(0) on any buffer, claim nothing
\* (claim_up_to = first_write = last_read + 1); such a poll returns an empty
\* sequence and none of its steps changes first_write, last_read,
\* next_write, last_cleaned, a key or a value.
C23_EmptyPollChangesNothing ==
    /\ [][EmptyPollBegins =>
            /\ consumer'.claim_up_to = first_write
            /\ first_write = last_read + 1]_vars
    /\ [][EmptyPollStep =>
            /\ consumer.bucket = <<>> /\ consumer'.bucket = <<>>
            /\ consumer'.pc \in {"drain", "idle"}
            /\ returned' = returned
            /\ first_write' = first_write /\ last_read' = last_read
            /\ next_write' = next_write /\ last_cleaned' = last_cleaned
            /\ keys' = keys /\ values' = values]_vars

\* poll(0) on a buffer that holds an entry is about to return
C23_Witness ==
    /\ consumer.pc = "drain" /\ consumer.op = "poll" /\ consumer.max_items = 0
    /\ consumer.claim_up_to = last_read + 1
    /\ next_write > first_write
    /\ returned # <<>>

\* C24: drained slots are released for reuse: with a consumer that keeps
\* polling, a full buffer does not stay full, and an offer that was
\* rejected and is retried is eventually accepted.
C24_RejectedOfferIsEventuallyAccepted ==
    /\ (size(next_write, last_read) = capacity) ~> (size(next_write, last_read) < capacity)
    /\ Rejected ~> Accepted

\* every offer has been accepted, some of them only when retried, one of
\* them into a slot that clean_up had erased
C24_Witness ==
    /\ producer.pc = "idle" /\ Len(log) = MaxRetryOffers
    /\ Results("rejected") = {}
    /\ rejection_count >= 2
    /\ last_cleaned >= 1
    /\ next_write > capacity + 1

\* C25: in every reachable state, also in the middle of an offer or a
\* poll, last_cleaned <= last_read < first_write <= next_write.
C25_CountersOrdered ==
    /\ last_cleaned <= last_read
    /\ last_read < first_write
    /\ first_write <= next_write
    \* until the first offer the counters have the values new gave them
    /\ log = <<>> => <<last_cleaned, last_read, first_write, next_write>> = <<0, 0, 1, 1>>

\* in the middle of an offer and of a poll: drained positions not yet
\* cleaned, a claimed position not yet drained
C25_Witness ==
    /\ producer.pc \notin {"idle", "panic"} /\ consumer.pc = "drain"
    /\ last_cleaned < last_read
    /\ last_read + 1 < first_write
    /\ first_write <= next_write

\* C26: in every reachable state no two positions of [first_write, next_write)
\* carry the same key, also after an offer that lost the coalesce-after-claim
\* race and appended its key as a new entry.
C26_NoDuplicateKeyInFlight ==
    \A p, q \in first_write..(next_write - 1) :
        (p # q /\ keys[Mask(p)].tag = "NonEmpty") => keys[Mask(p)] # keys[Mask(q)]

\* an offer swapped its value into a matched position, found the position
\* claimed, and appended its key at a position that is still in flight
C26_Witness ==
    \E i \in 1..Len(log) :
        /\ log[i].res = "appended"
        /\ log[i].clonePos # NoPos
        /\ log[i].pos \in first_write..(next_write - 1)
        /\ keys[Mask(log[i].pos)] = log[i].key

\* the positions fill has claimed (first_write stored past them) and not yet
\* taken
ClaimedNotTaken ==
    IF consumer.pc = "drain" THEN consumer.read_index..(consumer.claim_up_to - 1) ELSE {}

\* C27: publishing first_write = claim closes the coalescing window: for every
\* position p < claim the value poll returns for p is the value the slot held
\* when first_write was advanced past p; no step of an offer changes the
\* value of a claimed position before fill takes it.
C27_ClaimClosesCoalescingWindow ==
    [][\A p \in ClaimedNotTaken :
          IF consumer' = consumer
          THEN values'[Mask(p)] = values[Mask(p)]
          ELSE p = consumer.read_index =>
                  /\ consumer'.pc = "drain"
                  /\ consumer'.bucket =
                        Append(consumer.bucket, [obj |-> unwrap(values[Mask(p)]), pos |-> p])]_vars

\* what holds of C27: store and clean_up never touch a claimed position; the
\* only step that changes its value is the swap of an offer that matched it
\* before it was claimed
C27_OnlyTheSwapTouchesClaimed ==
    [][\A p \in ClaimedNotTaken :
          (consumer' = consumer /\ values'[Mask(p)] # values[Mask(p)])
              => (producer.pc = "swap" /\ producer.update_pos = p)]_vars

\* the step on which offer's re-read of first_write shows the matched position
\* already claimed
LostRace ==
    /\ producer.pc = "recheck"
    /\ ~StillInFlight(producer.update_pos, first_write)
    /\ producer' # producer

\* the offer reports no coalesce, leaves the scan and goes on to add
LostRaceGoesToAdd ==
    /\ producer'.pc = "size_before"
    /\ producer'.id = producer.id
    /\ log'[producer.id].res = "pending"
    /\ log'[producer.id].pos = NoPos

\* C28: when offer's re-read of first_write after its coalescing store shows
\* the matched position p already claimed, the offer reports no coalesce, puts
\* the prior value back into slot p if the consumer has not yet taken what the
\* offer stored there, leaves the scan and goes on to add, which appends the
\* new value at next_write or rejects it.
C28_LostRaceRestoresPriorValue ==
    [][LostRace =>
          /\ LostRaceGoesToAdd
          /\ LET index == Mask(producer.update_pos)
             IN  values[index] = Some(Clone(producer.id))
                    => values'[index] = producer.old_ptr]_vars

\* what holds of C28: the offer that lost the race reports no coalesce and
\* goes on to add
C28_LostRaceFallsThroughToAdd == [][LostRace => LostRaceGoesToAdd]_vars

\* fill has found an absent value
Panicked == consumer.pc = "panic"
NoPanic == ~Panicked

\* the published positions whose value no poll has taken yet
Undrained ==
    (IF consumer.pc = "drain" THEN consumer.read_index ELSE last_read + 1)..(next_write - 1)

\* C29: with one producer and one consumer, fill never finds an absent value:
\* under every interleaving every published position that poll has not yet
\* drained holds a value and a key holder other than Empty, so the panic
\* 'Null pointer is not expected here' is unreachable.
C29_FillNeverFindsAbsentValue ==
    /\ ~Panicked
    /\ \A p \in Undrained :
          /\ ~is_none(values[Mask(p)])
          /\ keys[Mask(p)].tag \in {"NonEmpty", "NonCollapsible"}

\* fill has taken a value and has another claimed position before it, while
\* an offer is running
C29_Witness ==
    /\ consumer.pc = "drain" /\ Len(consumer.bucket) >= 1
    /\ ClaimedNotTaken # {}
    /\ producer.pc \notin {"idle", "panic"}

\* the positions whose value a poll has taken / has returned
Positions(bucket) == {bucket[i].pos : i \in 1..Len(bucket)}

\* fill takes the value of position consumer.read_index
TakeStep ==
    /\ consumer.pc = "drain" /\ consumer.read_index < consumer.claim_up_to
    /\ consumer' # consumer

\* clean_up erases position producer.x + 1
EraseStep == producer.pc = "erase" /\ producer' # producer

\* store writes the slot of position next_write
StoreStep == producer.pc = "store" /\ producer' # producer

\* C30: each position p passes through its states only in the order stored
\* (next_write > p), claimed (first_write > p), drained (value taken by poll,
\* last_read >= p), cleaned (erased by clean_up, last_cleaned >= p): p is not
\* drained before it is claimed nor drained twice, not erased before
\* last_read >= p, and its physical slot is not stored again, for position
\* p + capacity, before p has been cleaned.
C30_PositionLifecycle ==
    [][/\ TakeStep =>
            LET p == consumer.read_index
            IN  /\ p < next_write /\ p < first_write
                /\ p > last_read /\ p \notin Positions(Taken)
       /\ EraseStep =>
            LET p == producer.x + 1
            IN  /\ p <= last_read /\ p \in Positions(returned)
                /\ p > last_cleaned
       /\ StoreStep =>
            /\ next_write - capacity <= last_cleaned
            /\ keys[Mask(next_write)] = Empty /\ is_none(values[Mask(next_write)])
       /\ last_cleaned' # last_cleaned =>
            /\ last_cleaned' <= last_read
            /\ \A p \in (last_cleaned + 1)..last_cleaned' :
                  keys'[Mask(p)] = Empty /\ is_none(values'[Mask(p)])
      ]_vars

\* a physical slot has been through the whole cycle and is stored again: the
\* position stored last is a second use of its slot
C30_Witness ==
    /\ producer.pc = "idle" /\ Len(log) >= 1
    /\ log[Len(log)].res = "appended"
    /\ log[Len(log)].pos > capacity
    /\ capacity = 2
    /\ last_cleaned >= log[Len(log)].pos - capacity

\* a step of offer, offer_value_only, add, size, clean_up or store / a step of
\* poll, poll_all, fill or the receiver's size
ProducerActs == producer' # producer
ConsumerActs == consumer' # consumer

\* C31: each counter has exactly one writer: no step of offer,
\* offer_value_only, add, clean_up or store changes first_write or last_read,
\* and no step of poll, poll_all or fill changes next_write, last_cleaned,
\* rejection_count or any key holder.
C31_OneWriterPerCounter ==
    [][/\ ProducerActs => UNCHANGED <<first_write, last_read>>
       /\ ConsumerActs => UNCHANGED <<next_write, last_cleaned, rejection_count, keys>>
       /\ ProducerActs \/ ConsumerActs]_vars

\* both threads have written their counters, and both are in the middle of
\* a call
C31_Witness ==
    /\ producer.pc = "erase" /\ consumer.pc = "drain"
    /\ first_write > 1 /\ last_read > 0 /\ next_write > 1
    /\ rejection_count > 0

\* the step on which add returns true: an entry has been appended
AppendStep ==
    /\ producer.pc = "publish"
    /\ log'[producer.id].res = "appended"

\* C32: next_write, first_write, last_read, last_cleaned and rejection_count
\* never decrease: every step of every operation leaves each of them equal
\* or larger, and next_write grows by exactly one per appended entry.
C32_CountersNeverDecrease ==
    [][/\ next_write' >= next_write
       /\ first_write' >= first_write
       /\ last_read' >= last_read
       /\ last_cleaned' >= last_cleaned
       /\ rejection_count' >= rejection_count
       /\ AppendStep => next_write' = next_write + 1
       /\ ~AppendStep => next_write' = next_write]_vars

\* every counter has grown, next_write by the number of appended entries
C32_Witness ==
    /\ Results("appended") # {} /\ Results("rejected") # {}
    /\ next_write = 1 + Cardinality(Results("appended"))
    /\ next_write > 2
    /\ first_write > 1 /\ last_read > 0 /\ last_cleaned > 0
    /\ rejection_count > 0

\* the physical slots of the published positions no poll has released
UnreleasedSlots == {Mask(q) : q \in (last_read + 1)..(next_write - 1)}

\* the positions not yet cleaned fit into the slots
FitsCapacity == next_write - last_cleaned - 1 <= capacity

\* C33: in every reachable state next_write - last_cleaned - 1 <= capacity, so
\* the slot that store writes (next_write & mask) has been erased by clean_up
\* or was never used: store never overwrites a value the consumer has not
\* drained, and clean_up, which erases only positions of
\* (last_cleaned, last_read], never erases the slot of a position of
\* (last_read, next_write).
C33_StoreAndCleanUpKeepApart ==
    [][/\ FitsCapacity /\ FitsCapacity'
       /\ StoreStep =>
            /\ Mask(next_write) \notin UnreleasedSlots
            /\ is_none(values[Mask(next_write)])
            /\ dropped' = dropped
       /\ EraseStep =>
            /\ producer.x + 1 \in (last_cleaned + 1)..last_read
            /\ Mask(producer.x + 1) \notin UnreleasedSlots]_vars

\* every slot of a buffer of capacity 2 is taken by a position not yet
\* cleaned, and the slot stored last had been used and erased before
C33_Witness ==
    /\ capacity = 2 /\ last_cleaned > 0
    /\ next_write - last_cleaned - 1 = capacity
    /\ producer.pc = "idle"

\* C34: under every interleaving of one producer and one consumer, the value
\* of an offer or offer_value_only call that returned false is never returned
\* by any poll (neither the value nor a clone of it).
C34_RejectedValueIsNeverReturned ==
    \A i \in Results("rejected") :
        \A j \in 1..Len(Taken) : Taken[j].obj.id # i

\* what holds of C34: a rejected call that swapped nothing into a slot
\* (offer_value_only, or an offer whose scan matched no key) is never returned
C34_RejectedByAddAloneIsNeverReturned ==
    \A i \in Results("rejected") :
        log[i].clonePos = NoPos => \A j \in 1..Len(Taken) : Taken[j].obj.id # i

\* C35: per-key order is preserved under every interleaving: if the producer
\* offers v1 and later v2 for the same key, the consumer is never returned
\* v1 after it has been returned v2.
C35_PerKeyOrderPreserved ==
    \A x, y \in 1..Len(Taken) :
        (/\ x < y
         /\ Keyed(Taken[x].obj.id)
         /\ log[Taken[x].obj.id].key = log[Taken[y].obj.id].key)
            => Taken[x].obj.id <= Taken[y].obj.id

\* three offers of one key: the consumer has been returned the values of two
\* of them in the order of the offers; one offer coalesced, one lost the race of C6
C35_Witness ==
    /\ Len(log) = 3 /\ Keyed(1)
    /\ log[2].key = log[1].key /\ log[3].key = log[1].key
    /\ \E x, y \in 1..Len(returned) :
          x < y /\ returned[x].obj.id < returned[y].obj.id
    /\ \E i \in 1..Len(log) : log[i].res = "appended" /\ log[i].clonePos # NoPos
    /\ Results("coalesced") # {}

\* offer i has returned true
AcceptedOffer(i) == i <= Len(log) /\ log[i].res \in {"appended", "coalesced"}

\* a poll has returned the value of offer i
Delivered(i) == CountId(returned, i) > 0

\* the first later offer that swapped its value into the position of offer
\* i's value did so while the position was still in flight
ReplacedInFlight(i) ==
    LET R == {j \in (i + 1)..Len(log) : log[j].clonePos = log[i].pos}
    IN  R # {} /\ log[CHOOSE j \in R : \A n \in R : j <= n].swapInFlight

\* C36: if the consumer keeps calling poll with max_items >= 1, every value
\* whose offer or offer_value_only returned true is eventually returned by a
\* poll, unless a later offer of the same key replaced it while it was still
\* in flight: no accepted value stays in the buffer for ever or is erased
\* undelivered.
C36_AcceptedValueIsDelivered ==
    \A i \in 1..MaxLiveOffers :
        AcceptedOffer(i) ~> (Delivered(i) \/ ReplacedInFlight(i))

\* what holds of C36: every accepted value is eventually returned or has
\* been replaced by a later offer of its key, in flight or not
C36_AcceptedValueIsDeliveredOrReplaced ==
    \A i \in 1..MaxLiveOffers :
        AcceptedOffer(i) ~>
            (Delivered(i) \/ \E j \in (i + 1)..Len(log) : log[j].clonePos = log[i].pos)

\* fill has stored first_write and not yet last_read
BetweenFillsStores == consumer.pc = "drain"

\* C37: whenever no poll is in progress first_write = last_read + 1, so
\* is_empty() agrees with size() = 0; only between fill's store to
\* first_write and its store to last_read can is_empty() hold while size()
\* is positive.
C37_IsEmptyAgreesWithSize ==
    /\ ~BetweenFillsStores =>
          /\ first_write = last_read + 1
          /\ is_empty <=> size(next_write, last_read) = 0
    /\ (is_empty /\ size(next_write, last_read) > 0) => BetweenFillsStores
    /\ size(next_write, last_read) = 0 => is_empty

\* a poll has claimed the two entries of the buffer and released neither:
\* is_empty() holds and size() is 2
C37_Witness ==
    /\ BetweenFillsStores
    /\ is_empty
    /\ size(next_write, last_read) = 2

\* the bounded ordered list the buffer stands for: the entries of the
\* published positions whose value no poll has taken, oldest first
List ==
    LET first == IF consumer.pc = "drain" THEN consumer.read_index ELSE last_read + 1
    IN  [x \in 1..(next_write - first) |->
            [key |-> keys[Mask(first + x - 1)], value |-> values[Mask(first + x - 1)]]]

HasKey(list, h) == \E x \in 1..Len(list) : list[x].key = h

\* the list with the value of the entry of key h replaced
Replace(list, h, v) ==
    [x \in 1..Len(list) |-> IF list[x].key = h THEN [list[x] EXCEPT !.value = v] ELSE list[x]]

\* what one step of offer / offer_value_only does to the list
OfferOnList ==
    /\ (producer.pc = "idle" /\ producer'.key.tag = "NonEmpty") =>
          /\ List' = List
          /\ producer'.pc = (IF HasKey(List, producer'.key) THEN "swap" ELSE "size_before")
    /\ (producer.pc = "idle" /\ producer'.key = NonCollapsible) =>
          List' = List /\ producer'.pc = "size_before"
    /\ producer.pc = "swap" =>
          /\ HasKey(List, producer.key)
          /\ List' = Replace(List, producer.key, Some(Clone(producer.id)))
    /\ producer.pc = "recheck" =>
          List' = List /\ log'[producer.id].res = "coalesced"
    /\ producer.pc = "size_after" =>
          /\ List' = List
          /\ IF Len(List) < capacity THEN producer'.pc = "clean"
             ELSE producer'.pc = "idle" /\ log'[producer.id].res = "rejected"
    /\ producer.pc \in {"size_before", "clean", "erase", "store"} => List' = List
    /\ producer.pc = "publish" =>
          /\ List' = Append(List, [key |-> producer.key, value |-> Some(Orig(producer.id))])
          /\ log'[producer.id].res = "appended"

\* what one step of poll / poll_all / size does to the list
PollOnList ==
    /\ (consumer.pc = "idle" /\ consumer'.op = "poll") =>
          /\ List' = List
          /\ consumer'.claim_up_to = last_read + 1 + Min(consumer'.max_items, Len(List))
    /\ (consumer.pc = "idle" /\ consumer'.op = "poll_all") =>
          List' = List /\ consumer'.claim_up_to = last_read + 1 + Len(List)
    /\ consumer.pc = "fill" => List' = List /\ consumer'.pc = "drain"
    /\ TakeStep =>
          /\ List # <<>> /\ List' = Tail(List)
          /\ consumer'.bucket = Append(consumer.bucket,
                                      [obj |-> unwrap(Head(List).value),
                                       pos |-> consumer.read_index])
    /\ (consumer.pc = "drain" /\ ~TakeStep) =>
          /\ List' = List
          /\ consumer'.pc = "idle"
          /\ Len(consumer.bucket) = consumer.claim_up_to - (last_read + 1)
          /\ returned' = returned \o consumer.bucket
    /\ (consumer'.op = "size" \/ consumer.op = "size") => List' = List

\* C38: when operations run one at a time, the ring buffer behaves like a
\* bounded ordered list of entries: offer(k, v) replaces the value of the
\* queued entry of key k if there is one, else appends (k, v) if fewer than
\* capacity entries are queued, else rejects; offer_value_only appends or
\* rejects likewise and never matches; poll(max_items) removes and returns
\* the values of the first min(max_items, length) entries; size() is the
\* list's length.
C38_BehavesLikeBoundedList ==
    [][/\ ProducerActs => OfferOnList
       /\ ConsumerActs => PollOnList
       /\ Quiet => size(next_write, last_read) = Len(List)
       /\ Quiet' => size(next_write', last_read') = Len(List')
       /\ Len(List) <= capacity
       /\ \A x, y \in 1..Len(List) :
             (x # y /\ List[x].key.tag = "NonEmpty") => List[x].key # List[y].key]_vars

\* offer(1, a); offer(2, b); offer(1, c); poll(1) on a buffer of capacity 2:
\* the list was [(1, c), (2, b)] and is [(2, b)], c has been returned
C38_Witness ==
    /\ Quiet /\ capacity = 2 /\ Len(log) = 3
    /\ log[3].res = "coalesced" /\ log[3].key = log[1].key
    /\ returned = <<[obj |-> Clone(3), pos |-> 1]>>
    /\ List = <<[key |-> log[2].key, value |-> Some(Orig(2))]>>

\* the number of places that hold value o: the cell, a sender's val_ptr or
\* old_ptr, the receiver's val, the values polls returned, the values dropped
Occurrences(seq, o) == Cardinality({x \in 1..Len(seq) : seq[x] = o})
Holders(o) ==
    (IF simple.value = Some(o) THEN 1 ELSE 0)
    + Cardinality({s \in Senders : simple.sender[s].val_ptr = Some(o)})
    + Cardinality({s \in Senders : simple.sender[s].old_ptr = Some(o)})
    + (IF simple.receiver.val = Some(o) THEN 1 ELSE 0)
    + Occurrences(simple.polled, o)
    + Occurrences(simple.freed, o)

\* value o has been passed to offer
Offered(o) == simple.sender[o.sender].n >= o.n

\* C39: in the single-cell buffer, with any number of concurrently offering
\* senders and one receiver, every offered value is returned by exactly one
\* poll or dropped exactly once by the later offer that overwrote it, never
\* both and never twice (until then it is in the cell or in the hands of the
\* thread that took it out); poll returns None exactly when no offer took
\* effect since the last poll.
C39_ReturnedOrDroppedExactlyOnce ==
    /\ [](\A o \in SimpleValues :
            /\ Holders(o) = (IF Offered(o) THEN 1 ELSE 0)
            /\ Occurrences(simple.polled, o) + Occurrences(simple.freed, o) <= 1)
    /\ [](simple.took_effect <=> ~is_none(simple.value))
    /\ [][/\ simple'.freed # simple.freed =>
              \E s \in Senders :
                  /\ simple.sender[s].pc = "drop" /\ ~is_none(simple.sender[s].old_ptr)
                  /\ simple'.freed = Append(simple.freed, unwrap(simple.sender[s].old_ptr))
                  /\ unwrap(simple.sender[s].old_ptr) # SimpleValue(s, simple.sender[s].n)
          /\ simple.receiver.pc = "poll" /\ simple'.receiver.pc = "got" =>
              (is_none(simple'.receiver.val) <=> ~simple.took_effect)
          /\ simple.receiver.pc = "got" /\ simple'.receiver.pc # "got" =>
              simple'.polled = IF is_none(simple.receiver.val) THEN simple.polled
                               ELSE Append(simple.polled, unwrap(simple.receiver.val))]_vars

\* both senders have offered, values have been returned and values have been
\* dropped by the offers that overwrote them, and a poll is returning None
C39_Witness ==
    /\ \A s \in Senders : simple.sender[s].n >= 2
    /\ Len(simple.polled) >= 2 /\ Len(simple.freed) >= 2
    /\ simple.receiver.pc = "got" /\ is_none(simple.receiver.val)
    /\ \E s \in Senders : simple.sender[s].pc = "drop" /\ ~is_none(simple.sender[s].old_ptr)

\* every sender's last swap has taken effect
AllSwapsDone ==
    \A s \in Senders :
        simple.sender[s].n > SimpleOffers /\ simple.sender[s].pc \in {"drop", "done"}

\* C40: in the single-cell buffer, if the receiver keeps polling, the value
\* of the offer whose swap takes effect last is eventually returned by a
\* poll; in the documented run, where each sender's final offer is -1, the
\* receiver eventually sees -1 and terminates (and then polls no more).
C40_LastValueIsDelivered ==
    /\ \A o \in SimpleValues :
          (AllSwapsDone /\ simple.value = Some(o))
              ~> (Occurrences(simple.polled, o) = 1 \/ simple.receiver.pc = "done")
    /\ <>(/\ simple.receiver.pc = "done"
          /\ simple.polled # <<>>
          /\ simple.polled[Len(simple.polled)].val = POISON_PILL)

\* the receiver has been returned values of both senders and then the -1 of
\* the offer whose swap took effect last, and has terminated
C40_Witness ==
    /\ simple.receiver.pc = "done"
    /\ \A s \in Senders : simple.sender[s].pc = "done"
    /\ is_none(simple.value)
    /\ Len(simple.polled) >= 3
    /\ \A s \in Senders : \E x \in 1..Len(simple.polled) : simple.polled[x].sender = s

\* the step on which poll(max_items) is called with max_items at least the
\* number of published undrained entries
PollUnbounded ==
    /\ consumer.pc = "idle" /\ consumer'.pc # "idle" /\ consumer'.op = "poll"
    /\ consumer'.max_items >= next_write - first_write

\* C12: poll(max_items) with max_items at least the number of published
\* undrained entries, up to the largest value of the word, does what
\* poll_all does from the same state: it passes fill the same claim_up_to
\* (fill is all that either call does after computing it).
C12_PollAllIsPollUnbounded ==
    [][PollUnbounded =>
        /\ consumer'.pc = PollAll.pc
        /\ consumer'.claim_up_to = PollAll.claim_up_to]_vars

====
